---- MODULE Spec2Model ----
(***************************************************************************)
(* Model of the workflow engine of src/app/engine.py: Node, WorkflowGraph  *)
(* (add_node, add_edge, get_next_node, run, _evaluate_conditional).        *)
(*                                                                         *)
(* A Python dict is a function from its keys to its values.  A nested      *)
(* mutable value (a list held under a key) is a reference into `heap`, so  *)
(* that dict.copy(), which is shallow, shares it.  Python's None is the    *)
(* string None below; no node is named that.                              *)
(***************************************************************************)
EXTENDS Integers, Sequences, FiniteSets, TLC

VARIABLES
  nodes,          \* self.nodes: name -> [func, status]
  edges,          \* self.edges: from_node -> to_node
  entry_node,     \* self.entry_node
  initial_state,  \* the caller's dict handed to run()
  heap,           \* nested list objects: reference -> contents
  frame,          \* per invocation of run(): its locals and its position
  last_call,      \* the last construction call and the error it raised
  pending,        \* the construction calls the caller has still to make
  graphs,         \* main.graphs: the graph ids registered, each naming the graph above
  runs,           \* main.runs: run_id -> the record run_graph stored
  response        \* what the last HTTP handler answered

vars ==
  <<nodes, edges, entry_node, initial_state, heap, frame, last_call, pending,
    graphs, runs, response>>

None == "<None>"

(***************************************************************************)
(* Bounds of the checked instances.                                        *)
(***************************************************************************)
MaxX == 2          \* initial_state["x"] ranges over 1..MaxX
MaxItems == 1      \* the caller's nested list starts with 0..MaxItems items
ChainMax == 101    \* longest linear chain of SpecChain

max_iterations == 100

(***************************************************************************)
(* dict operations                                                         *)
(***************************************************************************)
EmptyDict == [k \in {} |-> None]

Has(d, k) == k \in DOMAIN d

Get(d, k, default) == IF k \in DOMAIN d THEN d[k] ELSE default

Put(d, k, v) == [x \in (DOMAIN d) \cup {k} |-> IF x = k THEN v ELSE d[x]]

Del(d, k) == [x \in (DOMAIN d) \ {k} |-> d[x]]

\* dict.copy(): a new dict with the same values; nested objects are shared
ShallowCopy(d) == [k \in DOMAIN d |-> d[k]]

\* what a reader of dict d sees at every nesting depth
Deep(d, hp) == [k \in DOMAIN d |-> IF k = "items" THEN hp[d[k]] ELSE d[k]]

\* truth value of an Optional[str] in `while current_node_name` / `if next_node`
Truthy(v) == v # None /\ v # ""

\* str.startswith("if_")
StartsWithIf(name) == Len(name) >= 3 /\ SubSeq(name, 1, 3) = "if_"

(***************************************************************************)
(* Transforms (Node.func).  Each is a function of the state it is handed.  *)
(***************************************************************************)
F(kind, arg) == [kind |-> kind, arg |-> arg]

NoFunc == F("none", None)

Returned(st, hp) == [raised |-> FALSE, error |-> None, state |-> st, heap |-> hp]

Raised(msg, st, hp) == [raised |-> TRUE, error |-> msg, state |-> st, heap |-> hp]

\* dict.update(r)
Update(d, r) == [k \in (DOMAIN d) \cup (DOMAIN r) |-> IF k \in DOMAIN r THEN r[k] ELSE d[k]]

\* str.count(sub): occurrences that do not overlap, from the left;
\* cnt[i] counts those of s from position i on
Count(s, sub) ==
  LET cnt[i \in 1..(Len(s) + 1)] ==
        IF i + Len(sub) - 1 > Len(s) THEN 0
        ELSE IF SubSeq(s, i, i + Len(sub) - 1) = sub
             THEN 1 + cnt[i + Len(sub)]
             ELSE cnt[i + 1]
  IN  cnt[1]

\* sub in s
Contains(s, sub) ==
  \E i \in 1..(Len(s) - Len(sub) + 1) : SubSeq(s, i, i + Len(sub) - 1) = sub

UpperLetters == "ABCDEFGHIJKLMNOPQRSTUVWXYZ"

LowerLetters == "abcdefghijklmnopqrstuvwxyz"

\* the lower-case letter of every upper-case letter
LowerOf ==
  [c \in {SubSeq(UpperLetters, i, i) : i \in 1..Len(UpperLetters)} |->
     LET i == CHOOSE j \in 1..Len(UpperLetters) : SubSeq(UpperLetters, j, j) = c
     IN  SubSeq(LowerLetters, i, i)]

LowerChar(c) == IF c \in DOMAIN LowerOf THEN LowerOf[c] ELSE c

\* str.lower(); low[i] is the lowered text of s from position i on
Lower(s) ==
  LET low[i \in 1..(Len(s) + 1)] ==
        IF i > Len(s) THEN ""
        ELSE LowerChar(SubSeq(s, i, i)) \o low[i + 1]
  IN  low[1]

(***************************************************************************)
(* src/app/tools.py: the registry and the three registered tools           *)
(***************************************************************************)
tools == {"detect_smells", "check_complexity", "calculate_quality_score"}

\* ToolRegistry.get(name): None, or the message of the ValueError
tool_registry_get_error(name) ==
  IF name \notin tools THEN "Tool '" \o name \o "' not found in registry" ELSE None

detect_smells(code) ==
  LET issues ==
        (IF Len(code) > 1000 THEN <<"Code too long">> ELSE <<>>)
          \o (IF Count(code, "if") > 10 THEN <<"Too many conditionals">> ELSE <<>>)
          \o (IF Contains(code, "TODO") \/ Contains(code, "FIXME")
              THEN <<"Contains TODO/FIXME">> ELSE <<>>)
  IN  [issues |-> issues, issue_count |-> Len(issues)]

check_complexity(code) ==
  [complexity_score |->
     Count(code, "if") * 2 + Count(code, "for") * 3
       + Count(code, "while") * 4 + Count(code, "def") * 1]

calculate_quality_score(st) ==
  LET quality_score ==
        100 - (Get(st, "issue_count", 0) * 10) - (Get(st, "complexity_score", 0) * 2)
  IN  [quality_score |-> IF quality_score < 0 THEN 0 ELSE quality_score]

(***************************************************************************)
(* src/app/workflows.py: the node functions of the code-review workflow    *)
(***************************************************************************)
extract_functions(st) ==
  Put(Put(st, "function_count", Count(Get(st, "code", ""), "def ")), "extracted", TRUE)

check_complexity_node(st) == Update(st, check_complexity(Get(st, "code", "")))

detect_issues_node(st) == Update(st, detect_smells(Get(st, "code", "")))

Suggestion(issue) ==
  IF Contains(Lower(issue), "too long")
  THEN <<"Consider breaking into smaller functions">>
  ELSE IF Contains(Lower(issue), "conditionals")
  THEN <<"Consider using switch/case or polymorphism">>
  ELSE IF Contains(issue, "TODO")
  THEN <<"Remove TODO comments before production">>
  ELSE <<>>

\* the for loop of lines 52-58; sug[i] is the list after i issues
Suggestions(issues) ==
  LET sug[i \in 0..Len(issues)] ==
        IF i = 0 THEN <<>> ELSE sug[i - 1] \o Suggestion(issues[i])
  IN  sug[Len(issues)]

suggest_improvements(st) ==
  Put(st, "suggestions", Suggestions(Get(st, "issues", <<>>)))

calculate_quality(st) == Update(st, calculate_quality_score(st))

\* a threshold of type str is held under this key, since the values a
\* function has under one key are of one type
StrThreshold == "threshold:str"

check_threshold(st) ==
  IF Get(st, "quality_score", 0) >= Get(st, "threshold", 70)
  THEN Put(Put(st, "quality_met", TRUE), "loop_continue", FALSE)
  ELSE Put(Put(Put(st, "quality_met", FALSE), "loop_continue", TRUE),
           "loop_node", "suggest_improvements")

\* the TypeError of `quality_score >= threshold` for a str threshold
check_threshold_error(st) ==
  IF Has(st, StrThreshold)
  THEN "'>=' not supported between instances of 'int' and 'str'"
  ELSE None

Apply(func, st, hp) ==
  CASE func.kind = "identity" -> Returned(st, hp)
    [] func.kind = "raise" -> Raised("boom", st, hp)
    [] func.kind = "incr" ->
         IF Has(st, "x") THEN Returned(Put(st, "x", st["x"] + 1), hp)
         ELSE Raised("'x'", st, hp)
    [] func.kind = "loop_always" -> Returned(Put(st, "loop_continue", TRUE), hp)
    [] func.kind = "loop_once" ->
         IF Get(st, "count", 0) = 0
         THEN Returned(Put(Put(Put(st, "count", 1), "loop_continue", TRUE),
                           "loop_node", func.arg), hp)
         ELSE Returned(Put(st, "loop_continue", FALSE), hp)
    [] func.kind = "route" -> Returned(Put(st, "route_to", func.arg), hp)
    [] func.kind = "append" ->
         IF Has(st, "items")
         THEN Returned(st, [hp EXCEPT ![st["items"]] = Append(@, 7)])
         ELSE Raised("'items'", st, hp)
    [] func.kind = "extract_functions" -> Returned(extract_functions(st), hp)
    [] func.kind = "check_complexity_node" ->
         IF tool_registry_get_error("check_complexity") # None
         THEN Raised(tool_registry_get_error("check_complexity"), st, hp)
         ELSE Returned(check_complexity_node(st), hp)
    [] func.kind = "detect_issues_node" ->
         IF tool_registry_get_error("detect_smells") # None
         THEN Raised(tool_registry_get_error("detect_smells"), st, hp)
         ELSE Returned(detect_issues_node(st), hp)
    [] func.kind = "suggest_improvements" -> Returned(suggest_improvements(st), hp)
    [] func.kind = "calculate_quality" ->
         IF tool_registry_get_error("calculate_quality_score") # None
         THEN Raised(tool_registry_get_error("calculate_quality_score"), st, hp)
         ELSE Returned(calculate_quality(st), hp)
    [] func.kind = "check_threshold" ->
         IF check_threshold_error(st) # None
         THEN Raised(check_threshold_error(st), st, hp)
         ELSE Returned(check_threshold(st), hp)
    [] OTHER -> Raised("not callable", st, hp)

\* the transform writes loop_continue = True when handed st
SetsLoopFlag(func, st) ==
  \/ func.kind = "loop_always"
  \/ func.kind = "loop_once" /\ Get(st, "count", 0) = 0

(***************************************************************************)
(* WorkflowGraph: construction                                             *)
(***************************************************************************)
EmptyGraph == [nodes |-> EmptyDict, edges |-> EmptyDict, entry_node |-> None]

ThisGraph == [nodes |-> nodes, edges |-> edges, entry_node |-> entry_node]

NewNode(func) == [func |-> func, status |-> "PENDING"]

\* variant: every added node becomes the entry node
add_node_last_entry(g, name, func) ==
  [g EXCEPT !.nodes = Put(g.nodes, name, NewNode(func)),
            !.entry_node = name]

add_node(g, name, func) ==
  [g EXCEPT !.nodes = Put(g.nodes, name, NewNode(func)),
            !.entry_node = IF g.entry_node = None THEN name ELSE @]

\* variant: only the source endpoint is checked
add_edge_error_source_only(g, from_node, to_node) ==
  IF from_node \notin DOMAIN g.nodes THEN "Node '" \o from_node \o "' does not exist"
  ELSE None

add_edge_error(g, from_node, to_node) ==
  IF from_node \notin DOMAIN g.nodes THEN "Node '" \o from_node \o "' does not exist"
  ELSE IF to_node \notin DOMAIN g.nodes THEN "Node '" \o to_node \o "' does not exist"
  ELSE None

add_edge(g, from_node, to_node) ==
  IF add_edge_error(g, from_node, to_node) # None THEN g
  ELSE [g EXCEPT !.edges = Put(g.edges, from_node, to_node)]

get_next_node(e, current_node) == Get(e, current_node, None)

\* a construction call
Call(op, name, func, to) == [op |-> op, name |-> name, func |-> func, to |-> to]

NodeCall(name, func) == Call("add_node", name, func, None)

EdgeCall(from_node, to_node) == Call("add_edge", from_node, NoFunc, to_node)

(***************************************************************************)
(* WorkflowGraph.run and Node.execute                                      *)
(***************************************************************************)
RunIds == {1, 2}

MainRun == 1

IdleFrame ==
  [pc |-> "idle", state |-> EmptyDict, execution_log |-> <<>>,
   current_node_name |-> None, iteration |-> 0, visited_nodes |-> {},
   next_node |-> None, error |-> None, executions |-> 0,
   called_with |-> EmptyDict, result |-> EmptyDict]

Main == frame[MainRun]

Log == Main.execution_log

\* variant: the ceiling is tested with <=
LoopGuardInclusive(current_node_name, iteration) ==
  Truthy(current_node_name) /\ iteration <= max_iterations

\* variant: the loop also stops at a node whose status is already COMPLETED
LoopGuardFreshOnly(current_node_name, iteration) ==
  /\ Truthy(current_node_name) /\ iteration < max_iterations
  /\ current_node_name \in DOMAIN nodes =>
       nodes[current_node_name].status # "COMPLETED"

\* while current_node_name and iteration < max_iterations
LoopGuard(current_node_name, iteration) ==
  Truthy(current_node_name) /\ iteration < max_iterations

\* variant: the entry records the counter before its increment
RunningEntryStale(name, iteration) ==
  [node |-> name, status |-> "running", iteration |-> iteration - 1]

\* log_entry = {"node": ..., "status": "running", "iteration": ...}
RunningEntry(name, iteration) ==
  [node |-> name, status |-> "running", iteration |-> iteration]

CompletedEntry(entry, st) ==
  Put(Put(entry, "status", "completed"), "state_snapshot", ShallowCopy(st))

FailedEntry(entry, msg) == Put(Put(entry, "status", "failed"), "error", msg)

\* variant: the failed entry is not appended a second time
FailedLogOnce(log, msg) ==
  [log EXCEPT ![Len(log)] = FailedEntry(log[Len(log)], msg)]

\* the trace after the failure branch: the entry is updated, then appended again
FailedLog(log, msg) ==
  LET entry == FailedEntry(log[Len(log)], msg)
  IN  Append([log EXCEPT ![Len(log)] = entry], entry)

\* variant: route_to is removed only when it names a node
evaluate_conditional_keep(ns, st) ==
  IF Has(st, "route_to") /\ st["route_to"] \in DOMAIN ns
  THEN [next |-> st["route_to"], state |-> Del(st, "route_to")]
  ELSE [next |-> None, state |-> st]

\* _evaluate_conditional: the node to go to and the state it leaves
evaluate_conditional(ns, st) ==
  IF Has(st, "route_to")
  THEN [next |-> IF st["route_to"] \in DOMAIN ns THEN st["route_to"] ELSE None,
        state |-> Del(st, "route_to")]
  ELSE [next |-> None, state |-> st]

\* variant: an unresolved marker falls through to the static successor
ConditionalRoutingStatic(g, current_node_name, st) ==
  LET next_node == get_next_node(g.edges, current_node_name)
      res == evaluate_conditional(g.nodes, st)
  IN  IF Truthy(next_node) /\ StartsWithIf(next_node)
      THEN [next |-> IF res.next = None THEN next_node ELSE res.next,
            state |-> res.state]
      ELSE [next |-> next_node, state |-> st]

\* lines 118-127: the static successor, resolved when it is a conditional marker
ConditionalRouting(g, current_node_name, st) ==
  LET next_node == get_next_node(g.edges, current_node_name)
  IN  IF Truthy(next_node) /\ StartsWithIf(next_node)
      THEN evaluate_conditional(g.nodes, st)
      ELSE [next |-> next_node, state |-> st]

\* variant: the loop flag only applies when no next node was chosen
LoopOverrideLast(g, routed) ==
  IF Get(routed.state, "loop_continue", FALSE)
  THEN [next |-> IF Truthy(routed.next) THEN routed.next
                 ELSE Get(routed.state, "loop_node", g.entry_node),
        state |-> Put(routed.state, "loop_continue", FALSE)]
  ELSE routed

\* variant: the loop flag is not reset
LoopOverrideNoReset(g, routed) ==
  IF Get(routed.state, "loop_continue", FALSE)
  THEN [next |-> Get(routed.state, "loop_node", g.entry_node),
        state |-> routed.state]
  ELSE routed

\* lines 130-135: the loop flag overrides the node chosen so far
LoopOverride(g, routed) ==
  IF Get(routed.state, "loop_continue", FALSE)
  THEN [next |-> Get(routed.state, "loop_node", g.entry_node),
        state |-> Put(routed.state, "loop_continue", FALSE)]
  ELSE routed

\* run() is called with no entry node: ValueError before anything else
RunRaiseNoEntry(r) ==
  /\ pending = <<>>
  /\ frame[r].pc = "idle"
  /\ entry_node = None
  /\ frame' = [frame EXCEPT ![r].pc = "raised",
                            ![r].error = "No entry node defined"]
  /\ UNCHANGED <<nodes, edges, entry_node, initial_state, heap, last_call, pending,
               graphs, runs, response>>

\* variant: run() starts by resetting every node to PENDING
RunBeginResets(r) ==
  /\ pending = <<>>
  /\ frame[r].pc = "idle"
  /\ entry_node # None
  /\ nodes' = [n \in DOMAIN nodes |-> [nodes[n] EXCEPT !.status = "PENDING"]]
  /\ frame' = [frame EXCEPT ![r] =
                 [IdleFrame EXCEPT !.pc = "loop",
                                   !.state = ShallowCopy(initial_state),
                                   !.current_node_name = entry_node,
                                   !.called_with = Deep(initial_state, heap)]]
  /\ UNCHANGED <<edges, entry_node, initial_state, heap, last_call, pending,
               graphs, runs, response>>

\* lines 77-84: the working copy and the loop variables
RunBegin(r) ==
  /\ pending = <<>>
  /\ frame[r].pc = "idle"
  /\ entry_node # None
  /\ frame' = [frame EXCEPT ![r] =
                 [IdleFrame EXCEPT !.pc = "loop",
                                   !.state = ShallowCopy(initial_state),
                                   !.current_node_name = entry_node,
                                   !.called_with = Deep(initial_state, heap)]]
  /\ UNCHANGED <<nodes, edges, entry_node, initial_state, heap, last_call, pending,
               graphs, runs, response>>

\* line 95: self.nodes[current_node_name] for a name that is not a node
LookupRaise(r) ==
  /\ frame[r].pc = "loop"
  /\ LoopGuard(frame[r].current_node_name, frame[r].iteration)
  /\ frame[r].current_node_name \notin DOMAIN nodes
  /\ frame' = [frame EXCEPT ![r].pc = "raised",
                            ![r].iteration = @ + 1,
                            ![r].error = "'" \o frame[r].current_node_name \o "'"]
  /\ UNCHANGED <<nodes, edges, entry_node, initial_state, heap, last_call, pending,
               graphs, runs, response>>

\* variant: a node that another run is executing is refused
BeginStepExclusive(r) ==
  LET f == frame[r] IN
  /\ f.pc = "loop"
  /\ LoopGuard(f.current_node_name, f.iteration)
  /\ f.current_node_name \in DOMAIN nodes
  /\ IF nodes[f.current_node_name].status = "RUNNING"
     THEN /\ frame' = [frame EXCEPT ![r].pc = "raised", ![r].error = "busy"]
          /\ UNCHANGED nodes
     ELSE /\ nodes' = [nodes EXCEPT ![f.current_node_name].status = "RUNNING"]
          /\ frame' = [frame EXCEPT
                         ![r].pc = "in_func",
                         ![r].iteration = @ + 1,
                         ![r].executions = @ + 1,
                         ![r].execution_log =
                             Append(@, RunningEntry(f.current_node_name, f.iteration + 1))]
  /\ UNCHANGED <<edges, entry_node, initial_state, heap, last_call, pending,
               graphs, runs, response>>

\* lines 86-106 and 28: the entry is appended and Node.execute sets RUNNING
BeginStep(r) ==
  LET f == frame[r] IN
  /\ f.pc = "loop"
  /\ LoopGuard(f.current_node_name, f.iteration)
  /\ f.current_node_name \in DOMAIN nodes
  /\ nodes' = [nodes EXCEPT ![f.current_node_name].status = "RUNNING"]
  /\ frame' = [frame EXCEPT
                 ![r].pc = "in_func",
                 ![r].iteration = @ + 1,
                 ![r].executions = @ + 1,
                 ![r].execution_log =
                     Append(@, RunningEntry(f.current_node_name, f.iteration + 1))]
  /\ UNCHANGED <<edges, entry_node, initial_state, heap, last_call, pending,
               graphs, runs, response>>

\* lines 31-33 and 106-139: the transform returns
FuncReturn(r) ==
  LET f == frame[r]
      res == Apply(nodes[f.current_node_name].func, f.state, heap)
      routed == ConditionalRouting(ThisGraph, f.current_node_name, res.state)
      final == LoopOverride(ThisGraph, routed)
  IN
  /\ f.pc = "in_func"
  /\ ~res.raised
  /\ heap' = res.heap
  /\ nodes' = [nodes EXCEPT ![f.current_node_name].status = "COMPLETED"]
  /\ frame' = [frame EXCEPT
                 ![r].pc = "loop",
                 ![r].state = final.state,
                 ![r].execution_log =
                     [@ EXCEPT ![Len(@)] = CompletedEntry(@, res.state)],
                 ![r].visited_nodes = @ \cup {f.current_node_name},
                 ![r].next_node = get_next_node(edges, f.current_node_name),
                 ![r].current_node_name = final.next]
  /\ UNCHANGED <<edges, entry_node, initial_state, last_call, pending,
               graphs, runs, response>>

\* variant: Node.execute re-raises without setting FAILED
FuncRaiseKeepsRunning(r) ==
  LET f == frame[r]
      res == Apply(nodes[f.current_node_name].func, f.state, heap)
  IN
  /\ f.pc = "in_func"
  /\ res.raised
  /\ heap' = res.heap
  /\ frame' = [frame EXCEPT
                 ![r].pc = "raised",
                 ![r].error = res.error,
                 ![r].execution_log = FailedLog(@, res.error)]
  /\ UNCHANGED <<nodes, edges, entry_node, initial_state, last_call, pending,
               graphs, runs, response>>

\* lines 34-36 and 109-113: the transform raises
FuncRaise(r) ==
  LET f == frame[r]
      res == Apply(nodes[f.current_node_name].func, f.state, heap)
  IN
  /\ f.pc = "in_func"
  /\ res.raised
  /\ heap' = res.heap
  /\ nodes' = [nodes EXCEPT ![f.current_node_name].status = "FAILED"]
  /\ frame' = [frame EXCEPT
                 ![r].pc = "raised",
                 ![r].error = res.error,
                 ![r].execution_log = FailedLog(@, res.error)]
  /\ UNCHANGED <<edges, entry_node, initial_state, last_call, pending,
               graphs, runs, response>>

\* line 141: the loop is left and (state, execution_log) is returned
RunReturn(r) ==
  /\ frame[r].pc = "loop"
  /\ ~LoopGuard(frame[r].current_node_name, frame[r].iteration)
  /\ frame' = [frame EXCEPT ![r].pc = "returned",
                            ![r].result = Deep(frame[r].state, heap)]
  /\ UNCHANGED <<nodes, edges, entry_node, initial_state, heap, last_call, pending,
               graphs, runs, response>>

(***************************************************************************)
(* The checked instances: callers' construction scripts and run() inputs   *)
(***************************************************************************)
Targets == {"a", "c", "zz"}

Funcs ==
  {F("identity", None), F("raise", None), F("loop_always", None), F("append", None)}
    \cup {F("loop_once", t) : t \in Targets \cup {None}}
    \cup {F("route", t) : t \in {"c", "if_route", "zz"}}

Scripts ==
  {<<>>}
    \cup {<<NodeCall("a", f)>> : f \in Funcs}
    \cup {<<NodeCall("a", f), EdgeCall("a", "a")>> : f \in Funcs}
    \cup UNION {{<<NodeCall("a", f), NodeCall("c", h), EdgeCall("a", "c")>>,
                 <<NodeCall("a", f), NodeCall("c", h), EdgeCall("a", "c"),
                   EdgeCall("c", "a")>>,
                 <<NodeCall("a", f), NodeCall("c", h),
                   NodeCall("if_route", F("identity", None)),
                   EdgeCall("a", "if_route")>>} : f \in Funcs, h \in Funcs}

Input(st, hp) == [state |-> st, heap |-> hp]

NoHeap == <<>>

Inputs ==
  {Input([x |-> v], NoHeap) : v \in 1..MaxX}
    \cup {Input([x |-> 1, items |-> 1], <<[i \in 1..n |-> i]>>) : n \in 0..MaxItems}
    \cup {Input([route_to |-> t], NoHeap) : t \in {"c", "zz"}}
    \cup {Input([loop_continue |-> TRUE], NoHeap),
          Input([loop_continue |-> TRUE, route_to |-> "c"], NoHeap)}

\* no HTTP request has been answered
NoResponse == [handler |-> "none", status_code |-> 0, detail |-> None]

NoCall == [op |-> "none", name |-> None, func |-> NoFunc, to |-> None, error |-> None]

Made(c, err) == [op |-> c.op, name |-> c.name, func |-> c.func, to |-> c.to, error |-> err]

\* a fresh WorkflowGraph, and a caller about to make the calls of script on
\* it and then to call run(in.state)
InitWith(script, in) ==
  /\ nodes = EmptyGraph.nodes
  /\ edges = EmptyGraph.edges
  /\ entry_node = EmptyGraph.entry_node
  /\ initial_state = in.state
  /\ heap = in.heap
  /\ frame = [r \in RunIds |-> IdleFrame]
  /\ last_call = NoCall
  /\ pending = script
  /\ graphs = {}
  /\ runs = EmptyDict
  /\ response = NoResponse

\* graph.add_node(name, func)
AddNode(name, func) ==
  LET g == add_node(ThisGraph, name, func) IN
  /\ \A r \in RunIds : frame[r].pc = "idle"
  /\ nodes' = g.nodes
  /\ entry_node' = g.entry_node
  /\ last_call' = Made(NodeCall(name, func), None)
  /\ UNCHANGED <<edges, initial_state, heap, frame,
               graphs, runs, response>>

\* graph.add_edge(from_node, to_node), which may raise ValueError
AddEdge(from_node, to_node) ==
  LET g == add_edge(ThisGraph, from_node, to_node) IN
  /\ \A r \in RunIds : frame[r].pc = "idle"
  /\ edges' = g.edges
  /\ last_call' = Made(EdgeCall(from_node, to_node),
                       add_edge_error(ThisGraph, from_node, to_node))
  /\ UNCHANGED <<nodes, entry_node, initial_state, heap, frame,
               graphs, runs, response>>

\* the caller makes its next construction call
ScriptedAddNode ==
  /\ pending # <<>>
  /\ Head(pending).op = "add_node"
  /\ AddNode(Head(pending).name, Head(pending).func)
  /\ pending' = Tail(pending)

ScriptedAddEdge ==
  /\ pending # <<>>
  /\ Head(pending).op = "add_edge"
  /\ AddEdge(Head(pending).name, Head(pending).to)
  /\ pending' = Tail(pending)

Init == \E script \in Scripts, in \in Inputs : InitWith(script, in)

Next ==
  \/ ScriptedAddNode
  \/ ScriptedAddEdge
  \/ RunRaiseNoEntry(MainRun)
  \/ RunBegin(MainRun)
  \/ LookupRaise(MainRun)
  \/ BeginStep(MainRun)
  \/ FuncReturn(MainRun)
  \/ FuncRaise(MainRun)
  \/ RunReturn(MainRun)

Spec == Init /\ [][Next]_vars

(***************************************************************************)
(* Linear chains n1 -> n2 -> ... -> nN, every node with the same transform *)
(***************************************************************************)
NodeName(i) == "n" \o ToString(i)

ChainScript(n, f) ==
  [i \in 1..n |-> NodeCall(NodeName(i), f)]
    \o [i \in 1..(n - 1) |-> EdgeCall(NodeName(i), NodeName(i + 1))]

ChainFuncs == {F("identity", None), F("incr", None)}

ChainInputs ==
  {Input([x |-> v], NoHeap) : v \in 1..MaxX}
    \cup {Input([x |-> 1, loop_continue |-> TRUE], NoHeap)}

InitChain ==
  \E n \in 1..ChainMax, f \in ChainFuncs, in \in ChainInputs :
    InitWith(ChainScript(n, f), in)

NextChain ==
  \/ ScriptedAddNode
  \/ ScriptedAddEdge
  \/ RunBegin(MainRun)
  \/ BeginStep(MainRun)
  \/ FuncReturn(MainRun)
  \/ RunReturn(MainRun)

SpecChain == InitChain /\ [][NextChain]_vars

(***************************************************************************)
(* Free construction: any sequence of add_node and add_edge calls          *)
(***************************************************************************)
BuildNames == {"a", "c", "if_route"}

BuildFuncs == {F("identity", None), F("raise", None)}

InitBuild == InitWith(<<>>, Input([x |-> 1], NoHeap))

CallAddNode ==
  \E name \in BuildNames, func \in BuildFuncs :
    AddNode(name, func) /\ UNCHANGED pending

CallAddEdge ==
  \E from_node \in BuildNames, to_node \in BuildNames :
    AddEdge(from_node, to_node) /\ UNCHANGED pending

NextBuild == CallAddNode \/ CallAddEdge

SpecBuild == InitBuild /\ [][NextBuild]_vars

(***************************************************************************)
(* The same graph run twice in sequence with the same initial_state        *)
(***************************************************************************)
SecondRun == 2

Done(r) == frame[r].pc \in {"returned", "raised"}

AgainRaiseNoEntry == Done(MainRun) /\ RunRaiseNoEntry(SecondRun)

AgainBegin == Done(MainRun) /\ RunBegin(SecondRun)

NextTwice ==
  \/ Next
  \/ AgainRaiseNoEntry
  \/ AgainBegin
  \/ LookupRaise(SecondRun)
  \/ BeginStep(SecondRun)
  \/ FuncReturn(SecondRun)
  \/ FuncRaise(SecondRun)
  \/ RunReturn(SecondRun)

SpecTwice == Init /\ [][NextTwice]_vars

(***************************************************************************)
(* Two run() calls on the same graph, interleaved, as two run_graph        *)
(* requests served at the same time are; each request carries its own      *)
(* initial_state, so the inputs have no nested object in common            *)
(***************************************************************************)
ConcFuncs ==
  {F("identity", None), F("raise", None), F("route", "c"),
   F("loop_once", "a"), F("loop_once", "zz")}

ConcScripts ==
  {<<>>}
    \cup {<<NodeCall("a", f)>> : f \in ConcFuncs}
    \cup UNION {{<<NodeCall("a", f), NodeCall("c", h), EdgeCall("a", "c")>>,
                 <<NodeCall("a", f), NodeCall("c", h),
                   NodeCall("if_route", F("identity", None)),
                   EdgeCall("a", "if_route")>>} : f \in ConcFuncs, h \in ConcFuncs}

ConcInputs == {in \in Inputs : in.heap = NoHeap}

InitConc == \E script \in ConcScripts, in \in ConcInputs : InitWith(script, in)

ConcRaiseNoEntry == \E r \in RunIds : RunRaiseNoEntry(r)

ConcBegin == \E r \in RunIds : RunBegin(r)

ConcLookupRaise == \E r \in RunIds : LookupRaise(r)

ConcBeginStep == \E r \in RunIds : BeginStep(r)

ConcFuncReturn == \E r \in RunIds : FuncReturn(r)

ConcFuncRaise == \E r \in RunIds : FuncRaise(r)

ConcReturn == \E r \in RunIds : RunReturn(r)

NextConc ==
  \/ ScriptedAddNode
  \/ ScriptedAddEdge
  \/ ConcRaiseNoEntry
  \/ ConcBegin
  \/ ConcLookupRaise
  \/ ConcBeginStep
  \/ ConcFuncReturn
  \/ ConcFuncRaise
  \/ ConcReturn

SpecConc == InitConc /\ [][NextConc]_vars

(***************************************************************************)
(* src/app/main.py: the HTTP handlers over the registries graphs and runs. *)
(* One registered graph is followed, the one held in nodes, edges and      *)
(* entry_node; "g1" and "run1" stand for the uuid4 strings.                *)
(***************************************************************************)
ReviewNodes ==
  <<"extract_functions", "check_complexity", "detect_issues",
    "suggest_improvements", "calculate_quality", "check_threshold">>

\* lines 86-98 of workflows.py: the calls made on the new graph
ReviewScript ==
  <<NodeCall("extract_functions", F("extract_functions", None)),
    NodeCall("check_complexity", F("check_complexity_node", None)),
    NodeCall("detect_issues", F("detect_issues_node", None)),
    NodeCall("suggest_improvements", F("suggest_improvements", None)),
    NodeCall("calculate_quality", F("calculate_quality", None)),
    NodeCall("check_threshold", F("check_threshold", None)),
    EdgeCall("extract_functions", "check_complexity"),
    EdgeCall("check_complexity", "detect_issues"),
    EdgeCall("detect_issues", "suggest_improvements"),
    EdgeCall("suggest_improvements", "calculate_quality"),
    EdgeCall("calculate_quality", "check_threshold")>>

\* the graph after the calls of script, none of which raises here
Build(g, script) ==
  LET built[i \in 0..Len(script)] ==
        IF i = 0 THEN g
        ELSE IF script[i].op = "add_node"
             THEN add_node(built[i - 1], script[i].name, script[i].func)
             ELSE add_edge(built[i - 1], script[i].name, script[i].to)
  IN  built[Len(script)]

create_code_review_workflow == Build(EmptyGraph, ReviewScript)

ExampleId == "code_review_workflow"

CodeSimple == "def f(): return 1"

CodeTest == "def g(x): if x: for i in x: if i: for j in i: if j: pass # TODO FIXME"

CodeManyIf == "if a if b if c if d if e if g if h if i if j if k if l"

ApiCodes == {"", CodeSimple, CodeTest, CodeManyIf}

Thresholds == {50, 70}

\* request.initial_state of POST /graph/run
ApiInputs ==
  {Input(EmptyDict, NoHeap)}
    \cup {Input([code |-> c], NoHeap) : c \in ApiCodes}
    \cup {Input([code |-> c, threshold |-> t], NoHeap) : c \in ApiCodes, t \in Thresholds}
    \cup {Input(Put([code |-> c], StrThreshold, "high"), NoHeap) : c \in {CodeTest}}

\* request.entry_node of POST /graph/create
EntryRequests == {None, "", "a"}

\* request.graph_id of POST /graph/run
GraphIds == {"g1", ExampleId, "nope"}

InitApi == \E in \in ApiInputs : InitWith(<<>>, in)

\* POST /graph/create
create_graph(request_entry_node) ==
  /\ graphs = {}
  /\ entry_node' = IF Truthy(request_entry_node) THEN request_entry_node ELSE entry_node
  /\ graphs' = graphs \cup {"g1"}
  /\ response' = [handler |-> "create_graph", status_code |-> 200, detail |-> None]
  /\ UNCHANGED <<nodes, edges, initial_state, heap, frame, last_call, pending, runs>>

CreateGraph == \E e \in EntryRequests : create_graph(e)

\* POST /graph/create/example
create_example_graph ==
  /\ graphs = {}
  /\ nodes' = create_code_review_workflow.nodes
  /\ edges' = create_code_review_workflow.edges
  /\ entry_node' = create_code_review_workflow.entry_node
  /\ graphs' = graphs \cup {ExampleId}
  /\ response' = [handler |-> "create_example_graph", status_code |-> 200,
                  detail |-> None]
  /\ UNCHANGED <<initial_state, heap, frame, last_call, pending, runs>>

\* POST /graph/run, lines 125-126
run_graph_not_found ==
  /\ Main.pc = "idle"
  /\ \E graph_id \in GraphIds :
       /\ graph_id \notin graphs
       /\ response' = [handler |-> "run_graph", status_code |-> 404,
                       detail |-> "Graph not found"]
  /\ UNCHANGED <<nodes, edges, entry_node, initial_state, heap, frame, last_call,
                 pending, graphs, runs>>

\* what lines 136-142 store (created_at left out)
\* variant: a run cut by the iteration ceiling is stored as "truncated"
RunRecordTruncated(graph_id, f) ==
  [graph_id |-> graph_id, state |-> f.state, log |-> f.execution_log,
   status |-> IF Truthy(f.current_node_name) THEN "truncated" ELSE "completed"]

RunRecord(graph_id, f) ==
  [graph_id |-> graph_id, state |-> f.state, log |-> f.execution_log,
   status |-> "completed"]

\* what lines 151-158 store (created_at left out)
\* variant: the trace gathered before the failure is kept
FailedRecordKeepsLog(graph_id, f) ==
  [graph_id |-> graph_id, state |-> initial_state, log |-> f.execution_log,
   status |-> "failed", error |-> f.error]

FailedRecord(graph_id, f) ==
  [graph_id |-> graph_id, state |-> initial_state, log |-> <<>>,
   status |-> "failed", error |-> f.error]

\* the status code of the HTTPException of line 159
FailureStatus(error) == 500

\* line 133, graph.run(request.initial_state), with no entry node
ApiRaiseNoEntry ==
  /\ graphs # {}
  /\ "run1" \notin DOMAIN runs
  /\ RunRaiseNoEntry(MainRun)

\* line 133, graph.run(request.initial_state)
ApiBegin ==
  /\ graphs # {}
  /\ "run1" \notin DOMAIN runs
  /\ RunBegin(MainRun)

\* run_id = str(uuid.uuid4()) of the request served by run() invocation r
RunIdOf(r) == "run" \o ToString(r)

\* lines 136-148: run() returned
run_graph_store_of(r) ==
  /\ frame[r].pc = "returned"
  /\ RunIdOf(r) \notin DOMAIN runs
  /\ \E graph_id \in graphs :
       runs' = Put(runs, RunIdOf(r), RunRecord(graph_id, frame[r]))
  /\ response' = [handler |-> "run_graph", status_code |-> 200, detail |-> None,
                  final_state |-> frame[r].state,
                  execution_log |-> frame[r].execution_log]
  /\ UNCHANGED <<nodes, edges, entry_node, initial_state, heap, frame, last_call,
                 pending, graphs>>

run_graph_store == run_graph_store_of(MainRun)

\* lines 149-159: run() raised
run_graph_fail_of(r) ==
  /\ frame[r].pc = "raised"
  /\ RunIdOf(r) \notin DOMAIN runs
  /\ \E graph_id \in graphs :
       runs' = Put(runs, RunIdOf(r), FailedRecord(graph_id, frame[r]))
  /\ response' = [handler |-> "run_graph",
                  status_code |-> FailureStatus(frame[r].error),
                  detail |-> frame[r].error]
  /\ UNCHANGED <<nodes, edges, entry_node, initial_state, heap, frame, last_call,
                 pending, graphs>>

run_graph_fail == run_graph_fail_of(MainRun)

\* the steps the server takes by itself once a request is being handled
Handling ==
  \/ LookupRaise(MainRun)
  \/ BeginStep(MainRun)
  \/ FuncReturn(MainRun)
  \/ FuncRaise(MainRun)
  \/ RunReturn(MainRun)
  \/ run_graph_store
  \/ run_graph_fail

NextApi ==
  \/ CreateGraph
  \/ create_example_graph
  \/ run_graph_not_found
  \/ ApiRaiseNoEntry
  \/ ApiBegin
  \/ LookupRaise(MainRun)
  \/ BeginStep(MainRun)
  \/ FuncReturn(MainRun)
  \/ FuncRaise(MainRun)
  \/ RunReturn(MainRun)
  \/ run_graph_store
  \/ run_graph_fail

SpecApi == InitApi /\ [][NextApi]_vars

\* a handler that has started runs to its end: the code is sequential and
\* every transform returns or raises
SpecApiLive == SpecApi /\ WF_vars(Handling)

(***************************************************************************)
(* A second POST /graph/run with the same body, served after the first     *)
(***************************************************************************)
AgainApiRaiseNoEntry ==
  /\ RunIdOf(MainRun) \in DOMAIN runs
  /\ RunIdOf(SecondRun) \notin DOMAIN runs
  /\ RunRaiseNoEntry(SecondRun)

AgainApiBegin ==
  /\ RunIdOf(MainRun) \in DOMAIN runs
  /\ RunIdOf(SecondRun) \notin DOMAIN runs
  /\ RunBegin(SecondRun)

run_graph_store_again == run_graph_store_of(SecondRun)

run_graph_fail_again == run_graph_fail_of(SecondRun)

HandlingAgain ==
  \/ LookupRaise(SecondRun)
  \/ BeginStep(SecondRun)
  \/ FuncReturn(SecondRun)
  \/ FuncRaise(SecondRun)
  \/ RunReturn(SecondRun)
  \/ run_graph_store_again
  \/ run_graph_fail_again

NextRuns ==
  \/ NextApi
  \/ AgainApiRaiseNoEntry
  \/ AgainApiBegin
  \/ LookupRaise(SecondRun)
  \/ BeginStep(SecondRun)
  \/ FuncReturn(SecondRun)
  \/ FuncRaise(SecondRun)
  \/ RunReturn(SecondRun)
  \/ run_graph_store_again
  \/ run_graph_fail_again

SpecRuns == InitApi /\ [][NextRuns]_vars

SpecRunsLive == SpecRuns /\ WF_vars(Handling) /\ WF_vars(HandlingAgain)

(***************************************************************************)
(* Properties                                                              *)
(***************************************************************************)
NumNodes == Cardinality(DOMAIN nodes)

Min(a, b) == IF a < b THEN a ELSE b

LoopFlag(st) == Get(st, "loop_continue", FALSE)

\* the nodes met by following the static edges from name, at most k of them
RECURSIVE Walk(_, _)
Walk(name, k) ==
  IF k = 0 \/ name \notin DOMAIN nodes THEN <<>>
  ELSE <<name>> \o Walk(get_next_node(edges, name), k - 1)

\* the N nodes form a single linear chain from the entry node
IsLinearChain ==
  LET order == Walk(entry_node, NumNodes) IN
  /\ NumNodes >= 1
  /\ Len(order) = NumNodes
  /\ Cardinality({order[i] : i \in 1..Len(order)}) = NumNodes
  /\ order[NumNodes] \notin DOMAIN edges
  /\ \A n \in DOMAIN edges : ~StartsWithIf(edges[n])

\* no transform sets loop_continue and none raises on the given input
QuietTransforms ==
  /\ \A n \in DOMAIN nodes : nodes[n].func.kind \in {"identity", "incr"}
  /\ Has(initial_state, "x")

IdentityTransforms == \A n \in DOMAIN nodes : nodes[n].func.kind = "identity"

\* the trace has exactly k entries: the first k nodes of the chain, in edge
\* order, numbered 1..k, all completed
ChainTrace(k) ==
  /\ Len(Log) = k
  /\ Main.executions = k
  /\ Log[1].node = entry_node
  /\ \A i \in 1..k : Log[i].iteration = i /\ Log[i].status = "completed"
  /\ \A i \in 1..(k - 1) : Log[i + 1].node = edges[Log[i].node]
  /\ Cardinality({Log[i].node : i \in 1..k}) = k

\* C1 as stated: for every N, a linear chain with quiet transforms is run
\* node by node, each exactly once, in edge order; the trace has N entries
\* numbered 1..N, all "completed"; identity transforms leave the state equal
\* to the initial state.
C1_Original ==
  (Main.pc \in {"returned", "raised"} /\ IsLinearChain /\ QuietTransforms) =>
    /\ Main.pc = "returned"
    /\ ChainTrace(NumNodes)
    /\ IdentityTransforms => Main.state = initial_state

\* C1 amended: the same for N <= 100 and an initial state whose
\* loop_continue is not true; for N > 100 run() executes the first 100
\* nodes only and returns a trace of exactly 100 entries.
C1_Chain ==
  (/\ Main.pc \in {"returned", "raised"}
   /\ ~LoopFlag(initial_state)
   /\ IsLinearChain /\ QuietTransforms) =>
    /\ Main.pc = "returned"
    /\ ChainTrace(Min(NumNodes, max_iterations))
    /\ IdentityTransforms => Main.state = initial_state

C1_Witness ==
  /\ Main.pc = "returned"
  /\ ~LoopFlag(initial_state)
  /\ NumNodes = 3
  /\ IsLinearChain /\ QuietTransforms /\ IdentityTransforms
  /\ Len(Log) = 3

Snap(i) == Log[i].state_snapshot

\* the node whose transform run() is executing or has just executed
CurrentFunc == nodes[Log[Len(Log)].node].func

\* run() has re-signalled the failure of a transform
TransformFailed ==
  /\ Main.pc = "raised"
  /\ Len(Log) > 0
  /\ Log[Len(Log)].status = "failed"

\* C2: the caller's initial_state reads the same, at every nesting depth,
\* after every step of run() as before it.
C2_CallerStateUntouched ==
  [][Deep(initial_state', heap') = Deep(initial_state, heap)]_vars

\* C3: a single run() never makes more than 100 Node.execute attempts.
C3_AtMost100Executions == \A r \in RunIds : frame[r].executions <= 100

C3_Witness ==
  /\ Main.pc = "returned"
  /\ Main.executions = 100
  /\ Truthy(Main.current_node_name)

\* C4: when a transform raises, run() re-raises that error, the node is
\* FAILED, and nothing is executed afterwards in that run: no retry, no
\* successor, no route_to target, no loop_node target.
C4_FailureAborts ==
  /\ [](TransformFailed =>
          /\ Apply(CurrentFunc, Main.state, heap).raised
          /\ Main.error = Apply(CurrentFunc, Main.state, heap).error
          /\ nodes[Log[Len(Log)].node].status = "FAILED"
          /\ Main.executions = Main.iteration
          /\ \A i \in 1..(Main.iteration - 1) : Log[i].status = "completed")
  /\ [][TransformFailed => (frame' = frame /\ nodes' = nodes /\ heap' = heap)]_vars

C4_Witness ==
  /\ TransformFailed
  /\ Log[Len(Log)].node \in DOMAIN edges
  /\ Has(Main.state, "route_to")
  /\ Main.iteration >= 2

\* C5: when the transform executed at iteration k raises, the trace has
\* k+1 entries: k-1 completed ones, then two entries naming the failed node
\* with status "failed", iteration k and the error message; none is
\* "running".
C5_FailureTrace ==
  TransformFailed =>
    LET k == Main.iteration IN
    /\ Len(Log) = k + 1
    /\ \A i \in 1..(k - 1) : Log[i].status = "completed" /\ Log[i].iteration = i
    /\ \A i \in {k, k + 1} :
         /\ Log[i].node = Main.current_node_name
         /\ Log[i].status = "failed"
         /\ Log[i].iteration = k
         /\ Log[i].error = Main.error
    /\ \A i \in 1..(k + 1) : Log[i].status # "running"

C5_Witness ==
  /\ TransformFailed
  /\ Main.iteration = 3
  /\ Len(Log) = 4

\* the case of Scenario C: a single node, no edge, whose transform sets
\* loop_continue with loop_node naming itself on its first execution only
ScenarioC ==
  /\ DOMAIN nodes = {"a"}
  /\ nodes["a"].func = F("loop_once", "a")
  /\ DOMAIN edges = {}

\* C6: when an execution leaves loop_continue true, the next node is the
\* state's loop_node (the entry node when loop_node is absent), whatever the
\* static successor and the conditional resolver say, and loop_continue is
\* false in the state that node is handed; the node of Scenario C is
\* executed exactly twice and run() returns.
C6_LoopOverride ==
  /\ (Main.pc = "loop" /\ Len(Log) >= 1 /\ LoopFlag(Snap(Len(Log)))) =>
       /\ Main.current_node_name = Get(Snap(Len(Log)), "loop_node", entry_node)
       /\ Has(Main.state, "loop_continue") /\ ~Main.state["loop_continue"]
  /\ (Main.pc = "in_func" /\ Len(Log) >= 2 /\ LoopFlag(Snap(Len(Log) - 1))) =>
       /\ Log[Len(Log)].node = Get(Snap(Len(Log) - 1), "loop_node", entry_node)
       /\ Has(Main.state, "loop_continue") /\ ~Main.state["loop_continue"]
  /\ (ScenarioC /\ Main.pc \in {"returned", "raised"}) =>
       /\ Main.pc = "returned"
       /\ Main.executions = 2
       /\ Len(Log) = 2
       /\ \A i \in 1..2 : Log[i].node = "a" /\ Log[i].status = "completed"

\* the loop flag wins over a conditional marker resolved in the same step
C6_Witness ==
  /\ Main.pc = "in_func"
  /\ Len(Log) >= 2
  /\ LoopFlag(Snap(Len(Log) - 1))
  /\ StartsWithIf(get_next_node(edges, Log[Len(Log) - 1].node))
  /\ Has(Snap(Len(Log) - 1), "route_to")
  /\ Snap(Len(Log) - 1)["route_to"] \in DOMAIN nodes
  /\ Log[Len(Log)].node # Snap(Len(Log) - 1)["route_to"]

\* C7: once run() has consumed the loop flag, the next snapshot of the trace
\* has loop_continue false unless the node executed in between set it again:
\* one setting is never seen as true in two consecutive snapshots.
C7_FlagConsumedOnce ==
  /\ (Main.pc \in {"loop", "returned"} /\ Len(Log) >= 1) => ~LoopFlag(Main.state)
  /\ \A i \in 1..(Len(Log) - 1) :
       (/\ Log[i].status = "completed" /\ Log[i + 1].status = "completed"
        /\ LoopFlag(Snap(i)) /\ LoopFlag(Snap(i + 1))) =>
         SetsLoopFlag(nodes[Log[i + 1].node].func, Snap(i))

C7_Witness ==
  /\ Len(Log) >= 2
  /\ Log[2].status = "completed"
  /\ LoopFlag(Snap(1))
  /\ Has(Snap(2), "loop_continue")
  /\ ~LoopFlag(Snap(2))

\* run() has just gone through a conditional marker
AtMarker ==
  /\ Main.pc \in {"loop", "returned"}
  /\ Len(Log) >= 1
  /\ StartsWithIf(Main.next_node)

\* C8: after a conditional marker has been resolved, route_to is absent from
\* the state, whether or not it named a node.
C8_RouteConsumed == AtMarker => ~Has(Main.state, "route_to")

C8_Witness ==
  /\ AtMarker
  /\ Has(Snap(Len(Log)), "route_to")
  /\ Snap(Len(Log))["route_to"] \notin DOMAIN nodes
  /\ ~Has(Main.state, "route_to")

\* the node a conditional marker resolves to from the state st
Resolved(st) ==
  IF Has(st, "route_to") /\ st["route_to"] \in DOMAIN nodes
  THEN st["route_to"] ELSE None

EdgesNameNodes ==
  \A n \in DOMAIN edges : n \in DOMAIN nodes /\ edges[n] \in DOMAIN nodes

\* C10: add_edge raises and leaves the edge map alone when an endpoint is
\* not a node, and otherwise sets edges[from] = to, replacing any previous
\* destination; so every key and value of the edge map names a node.
C10_AddEdge ==
  /\ []EdgesNameNodes
  /\ [][last_call'.op = "add_edge" =>
          IF last_call'.name \in DOMAIN nodes /\ last_call'.to \in DOMAIN nodes
          THEN /\ last_call'.error = None
               /\ edges' = Put(edges, last_call'.name, last_call'.to)
          ELSE /\ last_call'.error # None
               /\ edges' = edges]_vars

\* a successful add_edge has replaced an earlier destination, and a later
\* add_edge to a missing node has failed
C10_Witness ==
  /\ last_call.op = "add_edge"
  /\ last_call.error # None
  /\ last_call.name \in DOMAIN edges
  /\ last_call.to \notin DOMAIN nodes

\* C11: on a fresh graph the first add_node call sets entry_node to its
\* name, and no later add_node (re-adding included) or add_edge changes it.
C11_FirstNodeIsEntry ==
  /\ [](entry_node = None <=> DOMAIN nodes = {})
  /\ [][(entry_node = None /\ DOMAIN nodes' # {}) =>
          (last_call'.op = "add_node" /\ entry_node' = last_call'.name)]_vars
  /\ [][entry_node # None => entry_node' = entry_node]_vars

\* the entry node has been re-added, other nodes and an edge added after it
C11_Witness ==
  /\ entry_node = "c"
  /\ last_call.op = "add_node"
  /\ last_call.name = "c"
  /\ nodes["c"].func = F("raise", None)
  /\ DOMAIN nodes = BuildNames
  /\ DOMAIN edges # {}

\* C18: the snapshot of every trace entry reads the same, at every nesting
\* depth, after each later step of the run as before it, and so do the
\* entry's node, status and iteration.
C18_SnapshotsFrozen ==
  [][\A i \in 1..Len(Log) :
       Log[i].status = "completed" =>
         /\ Len(Log') >= i
         /\ Log'[i].node = Log[i].node
         /\ Log'[i].status = Log[i].status
         /\ Log'[i].iteration = Log[i].iteration
         /\ Deep(Log'[i].state_snapshot, heap') = Deep(Log[i].state_snapshot, heap)]_vars

\* C20: run() raises only the no-entry-node error and errors raised by a
\* transform, never a node-lookup error of its own.
C20_NoLookupError ==
  Main.pc = "raised" =>
    \/ Main.error = "No entry node defined"
    \/ TransformFailed

\* the (node, status, iteration) of every entry of a trace
Shape(log) == [i \in 1..Len(log) |-> <<log[i].node, log[i].status, log[i].iteration>>]

\* C13: two runs of the same graph in sequence, called with equal initial
\* states, end the same way: equal final states (or the same error) and
\* traces with the same (node, status, iteration) entries.
C13_RerunSameResult ==
  (/\ Done(MainRun) /\ Done(SecondRun)
   /\ frame[MainRun].called_with = frame[SecondRun].called_with) =>
    /\ frame[SecondRun].pc = frame[MainRun].pc
    /\ frame[SecondRun].error = frame[MainRun].error
    /\ frame[SecondRun].result = frame[MainRun].result
    /\ Shape(frame[SecondRun].execution_log) = Shape(frame[MainRun].execution_log)

\* both runs went through a loop and a second node and left statuses behind
C13_Witness ==
  /\ Done(MainRun) /\ Done(SecondRun)
  /\ frame[MainRun].called_with = frame[SecondRun].called_with
  /\ frame[SecondRun].pc = "returned"
  /\ Len(frame[SecondRun].execution_log) = 3
  /\ Cardinality(DOMAIN nodes) >= 2
  /\ Has(frame[SecondRun].result, "count")

\* no run() is in progress
Quiescent == \A r \in RunIds : frame[r].pc \in {"idle", "returned", "raised"}

\* the entries of the runs made so far, oldest first
History == frame[MainRun].execution_log \o frame[SecondRun].execution_log

Executions(n) == {i \in 1..Len(History) : History[i].node = n}

Max(S) == CHOOSE m \in S : \A k \in S : k <= m

\* the status the most recent execution of n ended with
LastOutcome(n) ==
  IF Executions(n) = {} THEN "PENDING"
  ELSE IF History[Max(Executions(n))].status = "completed" THEN "COMPLETED"
  ELSE IF History[Max(Executions(n))].status = "failed" THEN "FAILED"
  ELSE "RUNNING"

\* a step in which some run() is at, or inside, Node.execute of node n
Executing(n) ==
  \E r \in RunIds :
    /\ frame[r].current_node_name = n
    /\ \/ frame[r].pc = "loop" /\ frame'[r].pc = "in_func"
       \/ frame[r].pc = "in_func"

\* C17: between runs every node's status is PENDING, COMPLETED or FAILED
\* according to whether, and how, its most recent execution ended, never
\* RUNNING; and a status only changes in Node.execute or when add_node
\* (re)creates the node.
C17_StatusIsLastOutcome ==
  /\ [](Quiescent =>
          \A n \in DOMAIN nodes :
            nodes[n].status = LastOutcome(n) /\ nodes[n].status # "RUNNING")
  /\ [][\A n \in DOMAIN nodes' :
          (n \notin DOMAIN nodes \/ nodes'[n].status # nodes[n].status) =>
            \/ Executing(n)
            \/ last_call'.op = "add_node" /\ last_call'.name = n
                 /\ nodes'[n].status = "PENDING"]_vars

\* after two runs: a node completed twice, one that failed, one never run
C17_Witness ==
  /\ Done(MainRun) /\ Done(SecondRun)
  /\ Len(frame[SecondRun].execution_log) >= 2
  /\ \E n \in DOMAIN nodes : nodes[n].status = "COMPLETED"
  /\ \E n \in DOMAIN nodes : nodes[n].status = "FAILED"
  /\ \E n \in DOMAIN nodes : nodes[n].status = "PENDING"

\* what run() gives when nothing else runs: the outcome of the loop entered
\* at node cur with working state st, counter it and trace log
RECURSIVE SoloFrom(_, _, _, _)
SoloFrom(cur, st, it, log) ==
  IF ~(Truthy(cur) /\ it < max_iterations)
  THEN [pc |-> "returned", state |-> st, log |-> log, error |-> None]
  ELSE IF cur \notin DOMAIN nodes
  THEN [pc |-> "raised", state |-> st, log |-> log, error |-> "'" \o cur \o "'"]
  ELSE LET res == Apply(nodes[cur].func, st, heap)
           running == Append(log, [node |-> cur, status |-> "running",
                                   iteration |-> it + 1])
       IN  IF res.raised
           THEN [pc |-> "raised", state |-> st, error |-> res.error,
                 log |-> FailedLog(running, res.error)]
           ELSE LET final == LoopOverride(ThisGraph,
                               ConditionalRouting(ThisGraph, cur, res.state))
                IN  SoloFrom(final.next, final.state, it + 1,
                             [running EXCEPT ![it + 1] = CompletedEntry(@, res.state)])

Solo ==
  IF entry_node = None
  THEN [pc |-> "raised", state |-> EmptyDict, log |-> <<>>,
        error |-> "No entry node defined"]
  ELSE SoloFrom(entry_node, ShallowCopy(initial_state), 0, <<>>)

\* C16: two interleaved runs of one graph keep separate working states and
\* traces: each ends with the state, the trace and the error it would have
\* when run alone, although both write the one status field of each node.
C16_RunsIsolatedButStatusShared ==
  \A r \in RunIds :
    Done(r) =>
      /\ frame[r].pc = Solo.pc
      /\ frame[r].error = Solo.error
      /\ frame[r].state = Solo.state
      /\ frame[r].execution_log = Solo.log

\* a node is COMPLETED or FAILED while the other run is inside its transform
C16_Witness ==
  \E r \in RunIds :
    /\ frame[r].pc = "in_func"
    /\ nodes[frame[r].current_node_name].status \in {"COMPLETED", "FAILED"}
    /\ \E q \in RunIds \ {r} :
         /\ Done(q)
         /\ frame[q].execution_log # <<>>

\* C12: in every graph built through add_node / add_edge, create_graph or
\* create_example_graph, entry_node is unset or names a node of the graph;
\* when it is unset run() raises the no-entry-node error before it executes
\* a node or changes a status.
C12_EntryUnsetOrNamesNode ==
  /\ entry_node = None \/ entry_node \in DOMAIN nodes
  /\ (Main.pc = "raised" /\ entry_node = None) =>
       /\ Main.error = "No entry node defined"
       /\ Log = <<>>
       /\ Main.executions = 0
       /\ \A n \in DOMAIN nodes : nodes[n].status = "PENDING"

\* run() stopped with a next node still pending
CutByCeiling == Main.pc = "returned" /\ Truthy(Main.current_node_name)

Stored == "run1" \in DOMAIN runs

\* C14: a started run() ends, and run_graph then stores its record; a run
\* that the iteration ceiling stopped returns normally with its state and a
\* trace of exactly 100 entries, all of them node executions, and no error;
\* run_graph records it with status "completed", as it records every run
\* that returned.
C14_CeilingStopsSilently ==
  /\ (Main.pc \in {"loop", "in_func"}) ~> Done(MainRun)
  /\ Done(MainRun) ~> Stored
  /\ [](CutByCeiling =>
          /\ Len(Log) = 100
          /\ Main.executions = 100
          /\ Main.error = None
          /\ Main.result = Deep(Main.state, heap)
          /\ \A i \in 1..Len(Log) :
               /\ Log[i].node \in DOMAIN nodes
               /\ Log[i].status = "completed"
               /\ Log[i].iteration = i)
  /\ []((Main.pc = "returned" /\ Stored) =>
          /\ runs["run1"].status = "completed"
          /\ runs["run1"].state = Main.state
          /\ runs["run1"].log = Log
          /\ response.status_code = 200
          /\ response.final_state = Main.state
          /\ response.execution_log = Log)

C14_Witness ==
  /\ CutByCeiling
  /\ Len(Log) = 100
  /\ Stored
  /\ runs["run1"].status = "completed"
  /\ response.status_code = 200

ClientError(code) == code \in 400..499

ServerError(code) == code \in 500..599

\* the message is that of ToolRegistry.get
ToolLookupError(error) == Len(error) >= 6 /\ SubSeq(error, 1, 6) = "Tool '"

\* C15: run_graph answers 404 for an unknown graph_id, a 4xx status when
\* run() found no entry node or a registry lookup failed, and a 5xx status
\* carrying the error message when a node's transform raised.
C15_ErrorClasses ==
  response.handler = "run_graph" =>
    /\ response.status_code = 404 => ~Stored /\ response.detail = "Graph not found"
    /\ (Stored /\ Main.pc = "raised") =>
         /\ Main.error = "No entry node defined" => ClientError(response.status_code)
         /\ ToolLookupError(Main.error) => ClientError(response.status_code)
         /\ (TransformFailed /\ ~ToolLookupError(Main.error)) =>
              /\ ServerError(response.status_code)
              /\ response.detail = Main.error

\* C19: a run of the code-review workflow executes its six nodes in order,
\* then repeats suggest_improvements, calculate_quality, check_threshold, and
\* returns only with quality_score >= threshold and quality_met true.
C19_LoopsUntilQualityMet ==
  (ExampleId \in graphs /\ Main.pc = "returned") =>
    /\ Len(Log) >= 6
    /\ \A i \in 1..6 : Log[i].node = ReviewNodes[i]
    /\ \A i \in 7..Len(Log) : Log[i].node = ReviewNodes[4 + ((i - 7) % 3)]
    /\ Get(Main.state, "quality_score", 0) >= Get(Main.state, "threshold", 70)
    /\ Get(Main.state, "quality_met", FALSE) = TRUE

\* the records a step adds to the run registry
Added == (DOMAIN runs') \ (DOMAIN runs)

\* C21: a run_graph request on a registered graph gets exactly one record,
\* under a run_id of its own, that is never changed afterwards: status
\* "completed" with the returned state and the whole trace when run()
\* returned; status "failed" with the error message, an empty log and the
\* request's initial state when run() raised, the trace gathered before the
\* failure being dropped.  A request for an unknown graph_id adds none.
C21_OneRecordPerRun ==
  /\ \A r \in RunIds : Done(r) ~> (RunIdOf(r) \in DOMAIN runs)
  /\ [](DOMAIN runs \subseteq {RunIdOf(r) : r \in {q \in RunIds : Done(q)}})
  /\ [][/\ \A id \in DOMAIN runs : id \in DOMAIN runs' /\ runs'[id] = runs[id]
        /\ Cardinality(Added) <= 1
        /\ \A id \in Added :
             \E r \in RunIds :
               /\ id = RunIdOf(r)
               /\ Done(r)
               /\ runs'[id].graph_id \in graphs
               /\ IF frame[r].pc = "returned"
                  THEN /\ runs'[id].status = "completed"
                       /\ runs'[id].state = frame[r].state
                       /\ runs'[id].log = frame[r].execution_log
                       /\ "error" \notin DOMAIN runs'[id]
                  ELSE /\ runs'[id].status = "failed"
                       /\ runs'[id].error = frame[r].error
                       /\ runs'[id].log = <<>>
                       /\ runs'[id].state = initial_state
                       /\ frame[r].error # "No entry node defined" =>
                            Deep(runs'[id].state, heap) = frame[r].called_with
        /\ (response' # response /\ response'.status_code = 404) => Added = {}
     ]_vars

\* both requests are recorded, the second run having failed after it had
\* gathered trace entries
C21_Witness ==
  /\ DOMAIN runs = {RunIdOf(MainRun), RunIdOf(SecondRun)}
  /\ runs[RunIdOf(SecondRun)].status = "failed"
  /\ runs[RunIdOf(SecondRun)].log = <<>>
  /\ Len(frame[SecondRun].execution_log) > 1
  /\ runs[RunIdOf(SecondRun)].state = initial_state

====
